---- MODULE Spec2Model ----
(***************************************************************************)
(* Verification model of the ContRAG contract-ingestion pipeline:          *)
(*   - the batch orchestrators (securities: EnhancedBatchProcessor,        *)
(*     license: EnhancedLicenseBatchProcessor) with their file cache,      *)
(*     driven by run_batch_processing or by the API's process_with_progress*)
(*   - the graph store adapter (import_*_contract_to_neo4j, ingest_contract)*)
(*   - the extraction merger (_extract_securities_agreement,               *)
(*     _extract_license_agreement)                                         *)
(*   - the query surface (query_contracts and its query generation)       *)
(*   - the text path to the generative extractor, the final report and     *)
(*     the cache flush cadence                                             *)
(* The specifications of the module: Spec (batch), SpecIngest (graph       *)
(* adapter), SpecMerge (merger), SpecQuery (query surface), SpecText       *)
(* (truncation and prompt), SpecReport (statistics of the final report)    *)
(* and SpecCadence (cache saves of a run).                                 *)
(***************************************************************************)
EXTENDS Integers, Sequences, FiniteSets, TLC

\* ---------------------------------------------------------------- bounds
NFiles == 2
MaxClock == 2

\* ------------------------------------------------------ program constants
MinTextLen == 100
SaveEvery == 5
LicenseSaveEvery == 10

Files == 1..NFiles
\* byte sizes a document may have: one below the minimum text length, one above
Sizes == {50, 200, 300}
\* values of max_contracts: None, or the first file only
Caps == {0, 1}

VARIABLES
  \* file system
  fExists, fMtime, fSize, clock,
  \* durable cache file (processed_contracts_cache.json)
  diskCache,
  \* graph store
  graph,
  \* processor instance and the run it executes
  variant, driver, force, pc, cache, queue, idx,
  processed_files, failed_files, successful_count,
  curSrc,
  \* observation of the run
  outcome, llmCalls, lookups, visited, prior, recorded, cacheBefore, persisted, discovered,
  hist,
  \* graph adapter harness (SpecIngest)
  ing,
  \* merger harness (SpecMerge)
  mrg,
  \* query surface (SpecQuery)
  qry,
  \* text path to the generative extractor (SpecText)
  txt,
  \* final report and its statistics query (SpecReport)
  rpt,
  \* cache flush cadence of a run (SpecCadence)
  cad,
  \* one source file from discovery to the report (SpecSource)
  pdf,
  \* POST /process requests, the current job and its background tasks
  api,
  \* graph store, its exported backup and the restored store
  bak

fsVars == <<fExists, fMtime, fSize, clock>>
procVars == <<variant, driver, force, pc, cache, queue, idx,
              processed_files, failed_files, successful_count, curSrc>>
obsVars == <<outcome, llmCalls, lookups, visited, prior, recorded, cacheBefore, persisted, discovered, hist>>
batchVars == <<fsVars, diskCache, graph, procVars, obsVars>>
harnessVars == <<ing, mrg, qry, txt, rpt, cad, pdf, api, bak>>
exceptIng == <<mrg, qry, txt, rpt, cad, pdf, api, bak>>
exceptMrg == <<ing, qry, txt, rpt, cad, pdf, api, bak>>
exceptQry == <<ing, mrg, txt, rpt, cad, pdf, api, bak>>
exceptTxt == <<ing, mrg, qry, rpt, cad, pdf, api, bak>>
exceptRpt == <<ing, mrg, qry, txt, cad, pdf, api, bak>>
exceptCad == <<ing, mrg, qry, txt, rpt, pdf, api, bak>>
exceptPdf == <<ing, mrg, qry, txt, rpt, cad, api, bak>>
exceptApi == <<ing, mrg, qry, txt, rpt, cad, pdf, bak>>
exceptBak == <<ing, mrg, qry, txt, rpt, cad, pdf, api>>
vars == <<batchVars, harnessVars>>

\* ------------------------------------------------------------ path layout
\* Files 2k-1 and 2k carry the same basename; odd files live below a
\* four-digit year directory, even files directly in the base directory.
Basename(f) == (f + 1) \div 2
InTopDir(f) == f % 2 = 0
FileType(f) == IF Basename(f) % 2 = 1 THEN "html" ELSE "txt"

\* _extract_year: first four-digit path component, else 0
_extract_year(f) == IF InTopDir(f) THEN 0 ELSE 2022

\* Python string order of the file types: "htm" < "html" < "txt"
TypeRank(t) == CASE t = "htm" -> 1 [] t = "html" -> 2 [] t = "txt" -> 3

\* order in which the glob passes run: *.html, *.htm, *.txt
GlobPass(t) == CASE t = "html" -> 1 [] t = "htm" -> 2 [] t = "txt" -> 3

\* the document title the extractor derives for a file (title plus contract id
\* built from the path)
TitleOf(f) == f

\* a cache entry: the content version the cached record was extracted from and
\* the source mtime at caching (the wall-clock processed_at stamp is left out)
NoEntry == [src |-> 0, mtime |-> 0]
EmptyCache == [f \in Files |-> NoEntry]

\* =========================================================== discovery
\* files a glob pass can see: existing files, only the top directory when the
\* base directory is an uploads directory (non-recursive search)
Found(upload) == {f \in Files : fExists[f] /\ (upload => InTopDir(f))}

Perms(S) == {s \in [1..Cardinality(S) -> S] : \A i, j \in 1..Cardinality(S) : i # j => s[i] # s[j]}

\* contract_files before dedup: the html pass, then htm, then txt; the order
\* inside one pass is whatever the directory scan yields
GlobOrders(upload) ==
  {s \in Perms(Found(upload)) :
     \A i, j \in 1..Len(s) : i < j => GlobPass(FileType(s[i])) <= GlobPass(FileType(s[j]))}

file_identifier(f) == <<Basename(f), fSize[f]>>

\* the dedup loop with the whole path as identifier: nothing is ever dropped
unique_files_by_path(files, seen, acc) == files

\* the dedup loop over contract_files: seen set, first occurrence kept
RECURSIVE unique_files(_, _, _)
unique_files(files, seen, acc) ==
  IF files = <<>> THEN acc
  ELSE LET f == Head(files) IN
       IF file_identifier(f) \notin seen
       THEN unique_files(Tail(files), seen \cup {file_identifier(f)}, Append(acc, f))
       ELSE unique_files(Tail(files), seen, acc)

\* sort key (year, file type), compared as Python compares tuples
KeyLess(a, b) ==
  \/ _extract_year(a) < _extract_year(b)
  \/ /\ _extract_year(a) = _extract_year(b)
     /\ TypeRank(FileType(a)) < TypeRank(FileType(b))

RECURSIVE InsertSorted(_, _)
InsertSorted(s, x) ==
  IF s = <<>> THEN <<x>>
  ELSE IF KeyLess(x, Head(s)) THEN <<x>> \o s
       ELSE <<Head(s)>> \o InsertSorted(Tail(s), x)

\* list.sort is stable: equal keys keep their discovery order
RECURSIVE SortFiles(_, _)
SortFiles(s, acc) ==
  IF s = <<>> THEN acc ELSE SortFiles(Tail(s), InsertSorted(acc, Head(s)))

find_all_contract_files(globbed) == SortFiles(unique_files(globbed, {}, <<>>), <<>>)

\* contract_files[:max_contracts]; 0 stands for None (falsy in both processors)
Capped(files, max_contracts) ==
  IF max_contracts # 0 /\ Len(files) > max_contracts
  THEN SubSeq(files, 1, max_contracts) ELSE files

\* =========================================================== file cache
\* is_contract_cached without the modification-time comparison
is_contract_cached_any_mtime(c, f) == c[f] # NoEntry

\* is_contract_cached: raises when the file cannot be stat'ed (callers test
\* fExists first); an entry is truthy when it was written by cache_contract_data
is_contract_cached(c, f) ==
  /\ c[f] # NoEntry
  /\ fMtime[f] <= c[f].mtime

\* cache_contract_data: the record extracted from the text read earlier,
\* stamped with the mtime the file has now
cache_contract_data(c, f, rec) ==
  [c EXCEPT ![f] = [src |-> rec.src, mtime |-> fMtime[f]]]

\* json.dump / json.load of the index: keys are path strings, values are
\* strings, numbers and null, which the round trip preserves
save_processed_cache(c) == c
load_processed_cache(disk, c) == disk

\* =========================================================== graph store
Titles == Files
EmptyGraph ==
  [node |-> [t \in Titles |-> 0],   \* number of primary contract nodes with this title
   full |-> [t \in Titles |-> 0],   \* content version of the full property set (0: none)
   lp   |-> [t \in Titles |-> 0],   \* content version of licensor/licensee links
   lm   |-> [t \in Titles |-> 0]]   \* content version of patent/product/territory links

\* MERGE (c {title: $title}): matches the existing nodes, creates one if none
\* CREATE in place of MERGE: every write adds a node
CreateNode(n) == n + 1

\* MERGE (c {title: $title}): the number of nodes with the title afterwards
MergeNode(n) == IF n = 0 THEN 1 ELSE n

\* the contract part of the full write query of
\* import_securities_contract_to_neo4j: MERGE on title, SET every property
FullWrite(g, rec) ==
  [g EXCEPT !.node[rec.title] = MergeNode(@),
            !.full[rec.title] = rec.src]

\* minimal_query: MERGE on title, SET contract_type and summary only (the
\* other properties of an existing node stay as they were)
MinimalWrite(g, rec) ==
  [g EXCEPT !.node[rec.title] = MergeNode(@)]

\* import_securities_contract_to_neo4j: the full query runs in one auto-commit
\* transaction (a failure leaves nothing of it); on failure the minimal query
\* runs, and its failure propagates
import_securities_contract_to_neo4j(g, rec, fullFails, minimalFails) ==
  IF ~fullFails THEN [g |-> FullWrite(g, rec), raised |-> FALSE]
  ELSE IF ~minimalFails THEN [g |-> MinimalWrite(g, rec), raised |-> FALSE]
  ELSE [g |-> g, raised |-> TRUE]

\* check_contract_exists: count(c) > 0, False when the query raises
check_contract_exists(g, title, checkFails) ==
  IF checkFails THEN FALSE ELSE g.node[title] > 0

\* the statements of import_license_contract_to_neo4j, each its own auto-commit
\* transaction: 1 contract node, 2 licensor/licensee, 3 patents/products/
\* territories.  failAt = k: statement k raises (0: none); what ran before stays
LicenseWrite(g, rec, failAt) ==
  LET upto == IF failAt = 0 THEN 3 ELSE failAt - 1 IN
  [g EXCEPT !.node[rec.title] = IF upto >= 1 THEN MergeNode(@) ELSE @,
            !.full[rec.title] = IF upto >= 1 THEN rec.src ELSE @,
            !.lp[rec.title] = IF upto >= 2 THEN rec.src ELSE @,
            !.lm[rec.title] = IF upto >= 3 THEN rec.src ELSE @]

\* import_license_contract_to_neo4j: skip when the title exists, else write;
\* the except clause prints and re-raises
import_license_contract_to_neo4j(g, rec, checkFails, failAt) ==
  IF check_contract_exists(g, rec.title, checkFails)
  THEN [g |-> g, raised |-> FALSE]
  ELSE [g |-> LicenseWrite(g, rec, failAt), raised |-> failAt # 0]

\* SecuritiesGraphRAGPipeline.ingest_contract after extraction
ingest_securities(g, rec, fullFails, minimalFails) ==
  import_securities_contract_to_neo4j(g, rec, fullFails, minimalFails)

\* LicenseGraphRAGPipeline.ingest_contract after extraction: early exit when
\* the title exists, else import (which checks again)
ingest_license(g, rec, checkFails1, checkFails2, failAt) ==
  IF check_contract_exists(g, rec.title, checkFails1)
  THEN [g |-> g, raised |-> FALSE]
  ELSE import_license_contract_to_neo4j(g, rec, checkFails2, failAt)

\* =========================================================== batch run
\* the record the extractor returns for the text read from file f
RecordOf(f, src) == [title |-> TitleOf(f), src |-> src]

Current == queue[idx]

\* the for loop moves to the next (file_path, file_type) or leaves the loop
NextFile ==
  /\ idx' = idx + 1
  /\ pc' = IF idx + 1 > Len(queue) THEN "finish" ELSE "lookup"

\* license run loop: "if index % 10 == 0: save_processed_cache()" after
\* process_single_contract returned; the other drivers save nothing here
PeriodicSave(c) ==
  IF variant = "license" /\ idx % LicenseSaveEvery = 0
  THEN diskCache' = save_processed_cache(c)
  ELSE UNCHANGED diskCache

\* what happened to the files of the run, beyond their outcome:
\*   genFailed    files whose generative call or schema parse failed
\*   storeRaised  files whose graph write raised
\*   graphBefore  the graph when the handling of the current file began
\*   interrupted  the file in progress when the loop was interrupted, or 0
\*   stopped      the loop was interrupted (between two files or within one)
\*   diskBefore   the cache file as it was when the run began
HistInit(g) == [genFailed |-> {}, storeRaised |-> {}, graphBefore |-> g, interrupted |-> 0,
                stopped |-> FALSE, diskBefore |-> EmptyCache]

\* extract_contract_data lets the failure of the generative call leave
ExtractorPropagates(genFails) == genFails

\* extract_contract_data catches every exception of llm.invoke and
\* parser.parse and returns the fallback record: it never raises
ExtractorRaises(genFails) == FALSE

\* a new processor instance starts run_batch_processing(max_contracts,
\* force_reprocess) or, for the API, process_with_progress(upload_dir)
StartRun(d, fr, mc, globbed) ==
  /\ pc \in {"idle", "crashed"}
  /\ d = "api" => (variant = "securities" /\ ~fr /\ mc = 0)
  /\ globbed \in GlobOrders(d = "api")
  /\ driver' = d
  /\ force' = fr
  /\ cache' = IF variant = "securities" /\ fr THEN EmptyCache
              ELSE load_processed_cache(diskCache, EmptyCache)
  /\ LET files == find_all_contract_files(globbed) IN
       IF files = <<>>
       THEN /\ queue' = <<>>          \* return {"error": "No contract files found"}
            /\ pc' = "idle"
       ELSE /\ queue' = Capped(files, mc)
            /\ pc' = "lookup"
  /\ idx' = 1
  /\ processed_files' = <<>>
  /\ failed_files' = <<>>
  /\ successful_count' = 0
  /\ curSrc' = 0
  /\ outcome' = [f \in Files |-> "none"]
  /\ llmCalls' = [f \in Files |-> 0]
  /\ lookups' = {}
  /\ visited' = {}
  /\ persisted' = {}
  /\ recorded' = EmptyCache
  /\ cacheBefore' = cache'
  /\ discovered' = globbed
  /\ hist' = [HistInit(graph) EXCEPT !.diskBefore = diskCache]
  /\ UNCHANGED <<fsVars, diskCache, graph, variant, prior, harnessVars>>

\* process_single_contract, first part: the cache check.  It sits outside the
\* try block, so an OSError of os.path.getmtime leaves the function
Lookup ==
  /\ pc = "lookup"
  /\ visited' = visited \cup {Current}
  /\ cacheBefore' = cache
  /\ hist' = [hist EXCEPT !.graphBefore = graph]
  /\ IF variant = "securities" /\ force
     THEN /\ pc' = "read"
          /\ UNCHANGED <<idx, processed_files, failed_files, successful_count,
                         outcome, lookups, diskCache>>
     ELSE /\ lookups' = lookups \cup {Current}
          /\ IF ~fExists[Current]
             THEN /\ outcome' = [outcome EXCEPT ![Current] = "error"]
                  /\ UNCHANGED <<processed_files, successful_count, diskCache>>
                  /\ IF variant = "license"
                     THEN /\ failed_files' = Append(failed_files, Current)  \* loop's except Exception
                          /\ NextFile
                     ELSE /\ UNCHANGED failed_files
                          /\ IF driver = "api"
                             THEN NextFile                                  \* loop's except Exception
                             ELSE /\ pc' = "crashed"                         \* leaves run_batch_processing
                                  /\ UNCHANGED idx
             ELSE IF is_contract_cached(cache, Current)
             THEN /\ outcome' = [outcome EXCEPT ![Current] = "skipped"]
                  /\ processed_files' = IF variant = "securities"
                                        THEN Append(processed_files, Current)
                                        ELSE processed_files
                  /\ successful_count' = successful_count + 1
                  /\ PeriodicSave(cache)
                  /\ NextFile
                  /\ UNCHANGED failed_files
             ELSE /\ pc' = "read"
                  /\ UNCHANGED <<idx, processed_files, failed_files, successful_count,
                                 outcome, diskCache>>
  /\ UNCHANGED <<fsVars, graph, variant, driver, force, cache, queue, curSrc,
                 llmCalls, prior, recorded, persisted, discovered, harnessVars>>

\* text extraction and the length check; an unreadable file yields ""
ReadText ==
  /\ pc = "read"
  /\ LET textLen == IF fExists[Current] THEN fSize[Current] ELSE 0 IN
       IF textLen < MinTextLen
       THEN /\ outcome' = [outcome EXCEPT ![Current] = "rejected"]   \* return False
            /\ PeriodicSave(cache)
            /\ NextFile
            /\ UNCHANGED curSrc
       ELSE /\ curSrc' = fMtime[Current]
            /\ pc' = "ingest"
            /\ UNCHANGED <<idx, outcome, diskCache>>
  /\ UNCHANGED <<fsVars, graph, variant, driver, force, cache, queue,
                 processed_files, failed_files, successful_count,
                 llmCalls, lookups, visited, prior, recorded, cacheBefore, persisted, discovered,
                 hist, harnessVars>>

\* ingest step that stores the cache entry before the graph write is known to
\* have succeeded
IngestCachingFirst ==
  /\ pc = "ingest"
  /\ llmCalls' = [llmCalls EXCEPT ![Current] = @ + 1]
  /\ cache' = cache_contract_data(cache, Current, RecordOf(Current, curSrc))
  /\ \E genFails, b1, b2 \in BOOLEAN, failAt \in 0..3 :
       LET rec == RecordOf(Current, curSrc)
           x == ExtractorRaises(genFails)
           w == IF variant = "securities"
                THEN ingest_securities(graph, rec, b1, b2)
                ELSE ingest_license(graph, rec, b1, b2, failAt)
           r == IF x THEN [g |-> graph, raised |-> TRUE] ELSE w IN
       /\ variant = "securities" => failAt = 0
       /\ graph' = r.g
       /\ hist' = [hist EXCEPT
                    !.genFailed = IF genFails THEN @ \cup {Current} ELSE @,
                    !.storeRaised = IF ~x /\ w.raised THEN @ \cup {Current} ELSE @]
       /\ IF r.raised
          THEN /\ failed_files' = Append(failed_files, Current)
               /\ outcome' = [outcome EXCEPT ![Current] = "failed"]
               /\ PeriodicSave(cache')
               /\ NextFile
               /\ UNCHANGED persisted
          ELSE /\ persisted' = persisted \cup {Current}
               /\ pc' = "put"
               /\ UNCHANGED <<idx, failed_files, outcome, diskCache>>
  /\ UNCHANGED <<fsVars, variant, driver, force, queue, curSrc,
                 processed_files, successful_count,
                 lookups, visited, prior, recorded, cacheBefore, discovered, harnessVars>>

\* pipeline.ingest_contract: generative extraction, then the graph write; an
\* exception of the write is caught by process_single_contract's except clause
Ingest ==
  /\ pc = "ingest"
  /\ llmCalls' = [llmCalls EXCEPT ![Current] = @ + 1]
  /\ \E genFails, b1, b2 \in BOOLEAN, failAt \in 0..3 :
       LET rec == RecordOf(Current, curSrc)
           x == ExtractorRaises(genFails)
           w == IF variant = "securities"
                THEN ingest_securities(graph, rec, b1, b2)
                ELSE ingest_license(graph, rec, b1, b2, failAt)
           r == IF x THEN [g |-> graph, raised |-> TRUE] ELSE w IN
       /\ variant = "securities" => failAt = 0
       /\ graph' = r.g
       /\ hist' = [hist EXCEPT
                    !.genFailed = IF genFails THEN @ \cup {Current} ELSE @,
                    !.storeRaised = IF ~x /\ w.raised THEN @ \cup {Current} ELSE @]
       /\ IF r.raised
          THEN /\ failed_files' = Append(failed_files, Current)
               /\ outcome' = [outcome EXCEPT ![Current] = "failed"]
               /\ PeriodicSave(cache)
               /\ NextFile
               /\ UNCHANGED persisted
          ELSE /\ persisted' = persisted \cup {Current}
               /\ pc' = "put"
               /\ UNCHANGED <<idx, failed_files, outcome, diskCache>>
  /\ UNCHANGED <<fsVars, variant, driver, force, cache, queue, curSrc,
                 processed_files, successful_count,
                 lookups, visited, prior, recorded, cacheBefore, discovered, harnessVars>>

\* cache_contract_data and the success bookkeeping; os.path.getmtime raises
\* for a vanished file before the entry is assigned
CachePut ==
  /\ pc = "put"
  /\ IF ~fExists[Current]
     THEN /\ failed_files' = Append(failed_files, Current)
          /\ outcome' = [outcome EXCEPT ![Current] = "failed"]
          /\ PeriodicSave(cache)
          /\ UNCHANGED <<cache, recorded, processed_files, successful_count>>
     ELSE /\ cache' = cache_contract_data(cache, Current, RecordOf(Current, curSrc))
          /\ recorded' = [recorded EXCEPT ![Current] = cache'[Current]]
          /\ processed_files' = Append(processed_files, Current)
          /\ successful_count' = successful_count + 1
          /\ outcome' = [outcome EXCEPT ![Current] = "succeeded"]
          /\ IF variant = "securities"
             THEN IF Len(processed_files') % SaveEvery = 0
                  THEN diskCache' = save_processed_cache(cache')
                  ELSE UNCHANGED diskCache
             ELSE PeriodicSave(cache')
          /\ UNCHANGED failed_files
  /\ NextFile
  /\ UNCHANGED <<fsVars, graph, variant, driver, force, queue, curSrc,
                 llmCalls, lookups, visited, prior, cacheBefore, persisted, discovered,
                 hist, harnessVars>>

\* KeyboardInterrupt while the loop runs.  process_single_contract catches
\* Exception only, so the interrupt leaves it wherever it arrives; the license
\* loop breaks and goes on to the final save and the report, the securities
\* loop has no handler and the interrupt leaves run_batch_processing.  An
\* interrupt during the license import arrives while statement `at` runs: the
\* statements before it are committed.  pc = "lookup" is the point between
\* two files.
Interrupt(at) ==
  /\ driver = "batch"
  /\ pc \in {"lookup", "read", "ingest", "put"}
  /\ pc # "ingest" => at = 1
  /\ LET rec == RecordOf(Current, curSrc) IN
       graph' = IF /\ pc = "ingest"
                   /\ variant = "license"
                   /\ ~check_contract_exists(graph, rec.title, FALSE)
                THEN LicenseWrite(graph, rec, at)
                ELSE graph
  /\ IF pc = "lookup"
     THEN /\ hist' = [hist EXCEPT !.stopped = TRUE]
          /\ UNCHANGED outcome
     ELSE /\ hist' = [hist EXCEPT !.stopped = TRUE, !.interrupted = Current]
          /\ outcome' = [outcome EXCEPT ![Current] = "interrupted"]
  /\ pc' = IF variant = "license" THEN "finish" ELSE "crashed"
  /\ UNCHANGED <<fsVars, diskCache, variant, driver, force, cache, queue, idx,
                 processed_files, failed_files, successful_count, curSrc,
                 llmCalls, lookups, visited, prior, recorded, cacheBefore, persisted,
                 discovered, harnessVars>>

\* the counts of the result the run returns once the loop is over: the summary
\* of _generate_final_report for run_batch_processing, the result dictionary
\* of process_with_progress for the API (failed_count = total - successful)
BatchResult ==
  IF driver = "api"
  THEN [total_files |-> Len(queue),
        successful_count |-> successful_count,
        failed_count |-> Len(queue) - successful_count]
  ELSE [total_files |-> Len(queue),
        successful_count |-> successful_count,
        failed_count |-> Len(failed_files)]

\* after the loop: run_batch_processing saves the cache and builds the report;
\* process_with_progress only builds its result
FinishRun ==
  /\ pc = "finish"
  /\ pc' = "idle"
  /\ diskCache' = IF driver = "api" THEN diskCache ELSE save_processed_cache(cache)
  /\ prior' = [f \in Files |-> IF recorded[f] # NoEntry THEN recorded[f] ELSE prior[f]]
  \* the processor instance is dropped with the report
  /\ driver' = "batch"
  /\ force' = FALSE
  /\ cache' = EmptyCache
  /\ queue' = <<>>
  /\ idx' = 1
  /\ processed_files' = <<>>
  /\ failed_files' = <<>>
  /\ successful_count' = 0
  /\ curSrc' = 0
  /\ outcome' = [f \in Files |-> "none"]
  /\ llmCalls' = [f \in Files |-> 0]
  /\ lookups' = {}
  /\ visited' = {}
  /\ persisted' = {}
  /\ recorded' = EmptyCache
  /\ cacheBefore' = EmptyCache
  /\ discovered' = <<>>
  /\ hist' = HistInit(graph)
  /\ UNCHANGED <<fsVars, graph, variant, harnessVars>>

\* ------------------------------------------------------------ environment
\* a writer changes a source file: new content of the same length, later mtime
ModifyFile(f) ==
  /\ fExists[f]
  /\ clock < MaxClock
  /\ clock' = clock + 1
  /\ fMtime' = [fMtime EXCEPT ![f] = clock + 1]
  /\ UNCHANGED <<fExists, fSize, diskCache, graph, procVars, obsVars, harnessVars>>

\* a source file disappears (the clock counts every file-system event)
DeleteFile(f) ==
  /\ fExists[f]
  /\ clock < MaxClock
  /\ clock' = clock + 1
  /\ fExists' = [fExists EXCEPT ![f] = FALSE]
  /\ UNCHANGED <<fMtime, fSize, diskCache, graph, procVars, obsVars, harnessVars>>

\* ========================================================= direct ingest
\* Calls of pipeline.ingest_contract made outside a batch run (the duplicate
\* handling test, the single-file entry points).  ing records the last call:
\*   title, doc   the record's title and the document it was extracted from
\*   raised       the call ended with an exception
\*   faulty       a store operation of the call was made to fail
\*   wrote        the import function got to its write statements
\*   stubFails    the minimal write was attempted and failed
\*   again        the same document had already been ingested under the title
\*   done         <<doc, title>> of the calls that returned normally
\*   kids         lengths of the record's parties, securities,
\*                closing_conditions and representations_warranties lists
\*   cc, rep      per title, the HAS_CLOSING_CONDITION and
\*                INCLUDES_REPRESENTATION edges of its contract node
\*   ccBefore, repBefore   the edges of the call's title before the call
\*   secMade, ccMade       Security and ClosingCondition nodes the call created
MaxCalls == 3
MaxList == 2
Docs == {1, 2}
KidLens == [parties : 0..MaxList, securities : 0..MaxList,
            conditions : 0..MaxList, reps : 0..MaxList]
IngInit ==
  [calls |-> 0, title |-> 1, doc |-> 1, raised |-> FALSE, faulty |-> FALSE,
   wrote |-> FALSE, stubFails |-> FALSE, again |-> FALSE, done |-> {},
   kids |-> [parties |-> 1, securities |-> 1, conditions |-> 1, reps |-> 1],
   cc |-> [t \in Titles |-> 0], rep |-> [t \in Titles |-> 0],
   ccBefore |-> 0, repBefore |-> 0, secMade |-> 0, ccMade |-> 0]
IngInputs == {[IngInit EXCEPT !.kids = k] : k \in KidLens}

\* rows of the full write query after "UNWIND $securities" and when it
\* reaches "UNWIND $closing_conditions":
\* one row per contract node matched by the MERGE, multiplied by every UNWIND
\* before it ("WITH c" keeps all rows; an empty list leaves none)
SecurityRows(nodes, k) == nodes * k.parties * k.securities
ConditionRows(nodes, k) == SecurityRows(nodes, k) * k.conditions
RepresentationRows(nodes, k) == ConditionRows(nodes, k) * k.reps

\* "CREATE (cc:ClosingCondition) ... MERGE (c)-[:HAS_CLOSING_CONDITION]->(cc)":
\* each row creates a node, and the MERGE towards the new node finds no
\* relationship and creates one
ChildEdges(before, rows) == before + rows

IngestSecurities(doc, title, fullFails, minimalFails) ==
  /\ pc = "idle"
  /\ variant = "securities"
  /\ ing.calls < MaxCalls
  /\ LET r == ingest_securities(graph, [title |-> title, src |-> doc], fullFails, minimalFails)
         nodes == MergeNode(graph.node[title])
         cc == IF fullFails THEN ing.cc[title]
               ELSE ChildEdges(ing.cc[title], ConditionRows(nodes, ing.kids))
         rep == IF fullFails THEN ing.rep[title]
                ELSE ChildEdges(ing.rep[title], RepresentationRows(nodes, ing.kids)) IN
       /\ graph' = r.g
       /\ ing' = [calls |-> ing.calls + 1, title |-> title, doc |-> doc,
                  raised |-> r.raised, faulty |-> fullFails,
                  wrote |-> TRUE, stubFails |-> fullFails /\ minimalFails,
                  again |-> <<doc, title>> \in ing.done,
                  done |-> IF r.raised THEN ing.done ELSE ing.done \cup {<<doc, title>>},
                  kids |-> ing.kids,
                  cc |-> [ing.cc EXCEPT ![title] = cc],
                  rep |-> [ing.rep EXCEPT ![title] = rep],
                  ccBefore |-> ing.cc[title], repBefore |-> ing.rep[title],
                  secMade |-> IF fullFails THEN 0 ELSE SecurityRows(nodes, ing.kids),
                  ccMade |-> IF fullFails THEN 0 ELSE ConditionRows(nodes, ing.kids)]
  /\ hist' = [hist EXCEPT !.graphBefore = graph']
  /\ UNCHANGED <<fsVars, diskCache, procVars, outcome, llmCalls, lookups, visited, prior,
                 recorded, cacheBefore, persisted, discovered, exceptIng>>

IngestLicense(doc, title, checkFails1, checkFails2, failAt) ==
  /\ pc = "idle"
  /\ variant = "license"
  /\ ing.calls < MaxCalls
  /\ LET r == ingest_license(graph, [title |-> title, src |-> doc], checkFails1, checkFails2, failAt)
         found == \/ check_contract_exists(graph, title, checkFails1)
                  \/ check_contract_exists(graph, title, checkFails2) IN
       /\ graph' = r.g
       /\ ing' = [calls |-> ing.calls + 1, title |-> title, doc |-> doc,
                  raised |-> r.raised,
                  faulty |-> checkFails1 \/ checkFails2 \/ failAt # 0,
                  wrote |-> ~found, stubFails |-> FALSE,
                  again |-> <<doc, title>> \in ing.done,
                  done |-> IF r.raised THEN ing.done ELSE ing.done \cup {<<doc, title>>},
                  kids |-> ing.kids, cc |-> ing.cc, rep |-> ing.rep,
                  ccBefore |-> ing.cc[title], repBefore |-> ing.rep[title],
                  secMade |-> 0, ccMade |-> 0]
  /\ hist' = [hist EXCEPT !.graphBefore = graph']
  /\ UNCHANGED <<fsVars, diskCache, procVars, outcome, llmCalls, lookups, visited, prior,
                 recorded, cacheBefore, persisted, discovered, exceptIng>>

\* ============================================================ field merge
\* extract_contract_data of the securities extractor after a successful
\* generative parse.  An Optional value is <<>> (None) or <<v>>; a list is a
\* sequence.  mrg holds the generative record (gen), the rule-based data
\* (rule), the type _detect_contract_type found (detected) and, once the merge
\* ran, the returned record (out); fallback tells that the generative step
\* failed and out is the fallback record.
ContractTypes == {"Securities Purchase Agreement", "License Agreement"}
GenRecords ==
  [contract_type : ContractTypes,
   execution_date : {<<>>, <<7>>},
   total_offering_amount : {<<>>, <<0>>, <<7>>},
   parties : {<<>>, <<"gen">>},
   securities : {<<>>, <<"gen">>},
   closing_conditions : {<<>>, <<"gen">>},
   summary : {<<>>, <<"gen">>, <<"Basic extraction">>}]

\* _extract_with_rules: a key is present only when a pattern matched
RuleData ==
  [execution_date : {<<>>, <<5>>},
   total_offering_amount : {<<>>, <<5>>},
   parties : {<<>>, <<"rule">>},
   securities : {<<>>, <<"rule">>},
   closing_conditions : {<<>>, <<"rule">>}]

\* _extract_license_with_rules: of the merged fields it only ever sets
\* upfront_payment (kept here under total_offering_amount)
LicenseRuleData ==
  {r \in RuleData : /\ r.execution_date = <<>> /\ r.parties = <<>>
                    /\ r.securities = <<>> /\ r.closing_conditions = <<>>}

\* Python truth value of an Optional date or of a list: None and [] are false
Truthy(v) == v # <<>>

\* Python truth value of an Optional number: None and 0 are false
TruthyNumber(v) == v # <<>> /\ v[1] # 0

\* "if not result.X and rule_based_data.get(X): result.X = rule_based_data[X]"
Fill(genValue, ruleValue) ==
  IF ~Truthy(genValue) /\ Truthy(ruleValue) THEN ruleValue ELSE genValue

\* the same statement on total_offering_amount, a number
FillNumber(genValue, ruleValue) ==
  IF ~TruthyNumber(genValue) /\ TruthyNumber(ruleValue) THEN ruleValue ELSE genValue

\* "if not result.summary or 'Basic extraction' in result.summary"
Summarize(summary) ==
  IF ~Truthy(summary) \/ summary = <<"Basic extraction">> THEN <<"generated">> ELSE summary

_extract_securities_agreement(gen, rule) ==
  [contract_type |-> gen.contract_type,
   execution_date |-> Fill(gen.execution_date, rule.execution_date),
   total_offering_amount |-> FillNumber(gen.total_offering_amount, rule.total_offering_amount),
   parties |-> Fill(gen.parties, rule.parties),
   securities |-> Fill(gen.securities, rule.securities),
   closing_conditions |-> Fill(gen.closing_conditions, rule.closing_conditions),
   summary |-> Summarize(gen.summary)]

_extract_license_agreement(gen, rule) ==
  [contract_type |-> "License Agreement",
   execution_date |-> Fill(gen.execution_date, rule.execution_date),
   total_offering_amount |-> FillNumber(gen.total_offering_amount, rule.total_offering_amount),
   parties |-> Fill(gen.parties, rule.parties),
   securities |-> Fill(gen.securities, rule.securities),
   closing_conditions |-> Fill(gen.closing_conditions, rule.closing_conditions),
   summary |-> Summarize(gen.summary)]

\* the dispatch on the detected type ("license" in contract_type.lower())
extract_contract_data(detected, gen, rule) ==
  IF detected = "License Agreement"
  THEN _extract_license_agreement(gen, rule)
  ELSE _extract_securities_agreement(gen, rule)

\* _create_enhanced_basic_contract: the record built when the generative call
\* or the parse raised.  guess is the party list _create_basic_contract found
\* with its text-prefix patterns; the rule data has no total_offering_amount
\* key in the license branch (its amount is under upfront_payment)
_create_enhanced_basic_contract(contract_type, rule, guess) ==
  [contract_type |-> contract_type,
   execution_date |-> rule.execution_date,
   total_offering_amount |-> IF contract_type = "License Agreement" THEN <<>>
                             ELSE IF TruthyNumber(rule.total_offering_amount)
                                  THEN rule.total_offering_amount ELSE <<>>,
   parties |-> IF Truthy(rule.parties) /\ ~Truthy(guess) THEN rule.parties ELSE guess,
   securities |-> rule.securities,
   closing_conditions |-> rule.closing_conditions,
   summary |-> <<"generated">>]

MergeInputs ==
  {[done |-> FALSE, fallback |-> FALSE, detected |-> d, gen |-> g, rule |-> r, out |-> g] :
     d \in {"License Agreement"}, g \in GenRecords, r \in LicenseRuleData}
  \cup
  {[done |-> FALSE, fallback |-> FALSE, detected |-> d, gen |-> g, rule |-> r, out |-> g] :
     d \in {"Securities Agreement"}, g \in GenRecords, r \in RuleData}

MrgInit ==
  [done |-> FALSE, fallback |-> FALSE, detected |-> "Securities Agreement",
   gen |-> CHOOSE g \in GenRecords : \A k \in DOMAIN g \ {"contract_type"} : g[k] = <<>>,
   rule |-> CHOOSE r \in RuleData : \A k \in DOMAIN r : r[k] = <<>>,
   out |-> CHOOSE g \in GenRecords : \A k \in DOMAIN g \ {"contract_type"} : g[k] = <<>>]

Extract ==
  /\ pc = "idle"
  /\ ~mrg.done
  /\ mrg' = [mrg EXCEPT !.done = TRUE,
                        !.out = extract_contract_data(mrg.detected, mrg.gen, mrg.rule)]
  /\ UNCHANGED <<batchVars, exceptMrg>>

\* the except clause of _extract_securities_agreement / _extract_license_agreement
ExtractFallback(guess) ==
  /\ pc = "idle"
  /\ ~mrg.done
  /\ mrg' = [mrg EXCEPT
               !.done = TRUE,
               !.fallback = TRUE,
               !.gen = MrgInit.gen,       \* nothing was parsed
               !.out = _create_enhanced_basic_contract(
                         IF mrg.detected = "License Agreement" THEN "License Agreement"
                         ELSE "Securities Purchase Agreement", mrg.rule, guess)]
  /\ UNCHANGED <<batchVars, exceptMrg>>

\* ========================================================= query surface
\* query_contracts of both pipelines.  A Cypher text is the sequence of its
\* lines, each named by what it starts with:
\*   MATCH, OPTIONAL MATCH, WITH, WHERE   clause lines
\*   MATCH_WHERE          a MATCH line carrying its WHERE filter
\*   MATCH_RETURN_NODES   a whole query on one line, projecting whole nodes
\*   RETURN_NODES         RETURN lc, licensor ...; RETURN_FIELDS projects fields
\*   ORDER BY, LIMIT
DefaultLimit == 10
QueryHeads ==
  { <<"MATCH">>, <<"MATCH_WHERE">>, <<"MATCH", "WHERE">>,
    <<"MATCH", "OPTIONAL MATCH">>, <<"MATCH", "WHERE", "OPTIONAL MATCH">>,
    <<"MATCH", "WITH">> }
QueryTails == { <<>>, <<"ORDER BY">>, <<"LIMIT">>, <<"ORDER BY", "LIMIT">> }
GeneratedQueries ==
  { h \o <<r>> \o t : h \in QueryHeads, r \in {"RETURN_NODES", "RETURN_FIELDS"}, t \in QueryTails }
  \cup { <<"MATCH_RETURN_NODES">> }

\* what the generative collaborator does when asked for a query
GenBehaviours == {<<"raises">>, <<"no MATCH">>} \cup GeneratedQueries

\* the canonical projection _fix_return_clause appends; its last line is the
\* literal "LIMIT 10", while the "LIMIT" line of a generated query and of the
\* fallback query carries the limit the caller asked for
CanonicalReturn == <<"RETURN_FIELDS", "ORDER BY", "LIMIT 10">>

\* _get_fallback_cypher_query
_get_fallback_cypher_query(limit) ==
  <<"MATCH", "OPTIONAL MATCH", "WITH", "RETURN_FIELDS", "ORDER BY", "LIMIT">>

ReturnsNodes(q) == \E i \in 1..Len(q) : q[i] \in {"RETURN_NODES", "MATCH_RETURN_NODES"}
StartsWithReturn(line) == line \in {"RETURN_NODES", "RETURN_FIELDS"}
KeptByFix(line) == line \in {"MATCH", "MATCH_WHERE", "MATCH_RETURN_NODES", "OPTIONAL MATCH", "WITH"}

\* the loop of _fix_return_clause: lines that start with MATCH, OPTIONAL
\* MATCH or WITH are collected, every other line is passed over, and the loop
\* ends at the first line that starts with RETURN
RECURSIVE match_lines(_)
match_lines(q) ==
  IF q = <<>> \/ StartsWithReturn(Head(q)) THEN <<>>
  ELSE IF KeptByFix(Head(q)) THEN <<Head(q)>> \o match_lines(Tail(q))
  ELSE match_lines(Tail(q))

_fix_return_clause(q) ==
  IF ReturnsNodes(q) THEN match_lines(q) \o CanonicalReturn ELSE q

\* _generate_cypher_query: every failure inside it yields the fallback query
_generate_cypher_query(gen, limit) ==
  IF gen \in {<<"raises">>, <<"no MATCH">>}
  THEN _get_fallback_cypher_query(limit)
  ELSE _fix_return_clause(gen)

\* the store rejects a text with two projections
ValidCypher(q) ==
  Cardinality({i \in 1..Len(q) : q[i] \in {"RETURN_NODES", "RETURN_FIELDS", "MATCH_RETURN_NODES"}}) = 1

\* the one filter a generated WHERE stands for
PassesFilter(t) == t = 1
HasFilter(q) == \E i \in 1..Len(q) : q[i] \in {"WHERE", "MATCH_WHERE"}

\* the contracts a query selects from the stored ones
Selected(q, stored) == IF HasFilter(q) THEN {t \in stored : PassesFilter(t)} ELSE stored

\* the rows the store returns for a query: all selected contracts when the
\* query has no LIMIT line, else the first n of them
HasLine(q, kind) == \E i \in 1..Len(q) : q[i] = kind
FirstRows(rows, n) == {t \in rows : Cardinality({u \in rows : u < t}) < n}
LimitedRows(q, limit, rows) ==
  IF HasLine(q, "LIMIT 10") THEN FirstRows(rows, DefaultLimit)
  ELSE IF HasLine(q, "LIMIT") THEN FirstRows(rows, limit)
  ELSE rows

\* session.run(q) and the loop over its records, which appends one contract
\* per record
RunQuery(q, limit, stored, storeFails) ==
  IF storeFails \/ ~ValidCypher(q)
  THEN [raised |-> TRUE, rows |-> {}]
  ELSE [raised |-> FALSE, rows |-> LimitedRows(q, limit, Selected(q, stored))]

\* _get_fallback_contracts: no try around its session.run
_get_fallback_contracts(limit, stored, storeFails2) ==
  RunQuery(_get_fallback_cypher_query(limit), limit, stored, storeFails2)

\* _get_relevant_contracts of the license pipeline
_get_relevant_contracts(gen, limit, stored, storeFails1, storeFails2) ==
  LET first == RunQuery(_generate_cypher_query(gen, limit), limit, stored, storeFails1) IN
    IF first.raised THEN _get_fallback_contracts(limit, stored, storeFails2) ELSE first

\* _get_relevant_contracts of the securities pipeline: one fixed query
securities_get_relevant_contracts(limit, stored, storeFails1) ==
  RunQuery(_get_fallback_cypher_query(limit), limit, stored, storeFails1)

\* the outer try/except of query_contracts lets the exception leave
QueryPropagates(got, answer) ==
  IF got.raised THEN "raised"
  ELSE IF got.rows = {} THEN "no contracts"
  ELSE answer

\* query_contracts: the string it returns, named by its kind
query_contracts(got, answer) ==
  IF got.raised THEN "processing error"
  ELSE IF got.rows = {} THEN "no contracts"
  ELSE answer

AnswerKinds == {"answer", "sorry", "llm error"}

\* qry records the last call of query_contracts:
\*   stored     titles of the contracts in the graph
\*   generated  what the generative collaborator returned for the query
\*   executed   the query _generate_cypher_query handed to the store
\*   escaped    an exception left _get_relevant_contracts
\*   rows       the contracts _get_relevant_contracts returned
\*   result     kind of the string query_contracts returned, or "raised"
\*   direct     _get_relevant_contracts was called directly
\*   limit      the limit of the last call of _get_relevant_contracts
QryInit(stored) ==
  [calls |-> 0, stored |-> stored, generated |-> <<>>, executed |-> <<>>,
   escaped |-> FALSE, rows |-> {}, result |-> "none",
   direct |-> FALSE, limit |-> DefaultLimit]
\* limits a caller passes: a small one and the default
Limits == {1, DefaultLimit}

QueryLicense(gen, storeFails1, storeFails2, answer) ==
  /\ pc = "idle"
  /\ variant = "license"
  /\ LET got == _get_relevant_contracts(gen, DefaultLimit, qry.stored, storeFails1, storeFails2) IN
       qry' = [qry EXCEPT !.calls = 1,
                          !.generated = gen,
                          !.executed = _generate_cypher_query(gen, DefaultLimit),
                          !.escaped = got.raised,
                          !.rows = got.rows,
                          !.result = query_contracts(got, answer),
                          !.direct = FALSE,
                          !.limit = DefaultLimit]
  /\ UNCHANGED <<batchVars, exceptQry>>

QuerySecurities(storeFails1, answer) ==
  /\ pc = "idle"
  /\ variant = "securities"
  /\ LET got == securities_get_relevant_contracts(DefaultLimit, qry.stored, storeFails1) IN
       qry' = [qry EXCEPT !.calls = 1,
                          !.generated = <<>>,
                          !.executed = _get_fallback_cypher_query(DefaultLimit),
                          !.escaped = got.raised,
                          !.rows = got.rows,
                          !.result = query_contracts(got, answer),
                          !.direct = FALSE,
                          !.limit = DefaultLimit]
  /\ UNCHANGED <<batchVars, exceptQry>>

\* a direct call of the license pipeline's _get_relevant_contracts(query,
\* limit)
RelevantContracts(gen, limit, storeFails1, storeFails2) ==
  /\ pc = "idle"
  /\ variant = "license"
  /\ LET got == _get_relevant_contracts(gen, limit, qry.stored, storeFails1, storeFails2) IN
       qry' = [QryInit(qry.stored) EXCEPT
                 !.generated = gen,
                 !.executed = _generate_cypher_query(gen, limit),
                 !.escaped = got.raised,
                 !.rows = got.rows,
                 !.direct = TRUE,
                 !.limit = limit]
  /\ UNCHANGED <<batchVars, exceptQry>>

\* -------------------------------------------- text sent to the extractor
\* process_single_contract truncates the extracted text, ingest_contract
\* cleans it, and the extractor formats the prompt from a prefix of it.
\* A text is a sequence of pieces: a run of the document's characters
\* from..to (1-based, inclusive) of which `cut` are excess whitespace that
\* cleaning removes, or the elision marker.
TruncateThreshold == 20000
HeadChars == 15000
TailChars == 5000
PromptChars == 15000
\* len("\n...[MIDDLE CONTENT TRUNCATED]...\n")
MarkerLen == 34
LenStep == 500
MaxSteps == 60
TextLens == {50} \cup {LenStep * k : k \in 1..MaxSteps}
\* excess whitespace of the document, all of it within its first characters
Whitespace == {0, 20, 40, 6000}

DocPiece(from, to, cut) == [kind |-> "doc", from |-> from, to |-> to, cut |-> cut]
Marker == [kind |-> "marker", from |-> 0, to |-> 0, cut |-> 0]
Text(len, ws) == <<DocPiece(1, len, ws)>>

\* characters a piece holds once the characters in `cut` are gone
PieceLen(p) == IF p.kind = "marker" THEN MarkerLen - p.cut ELSE p.to - p.from + 1 - p.cut
TextLen(t) == IF t = <<>> THEN 0
              ELSE LET RECURSIVE Sum(_)
                       Sum(i) == IF i = 0 THEN 0 ELSE Sum(i - 1) + PieceLen(t[i])
                   IN Sum(Len(t))

\* whitespace of the document that lies inside from..to: the excess
\* whitespace sits at the start of the document
CutIn(from, to, ws) == IF from = 1 THEN (IF ws <= to THEN ws ELSE to) ELSE 0

\* contract_text[:HeadChars] + marker + contract_text[-TailChars:]
Truncate(len, ws) ==
  IF len > TruncateThreshold
  THEN <<DocPiece(1, HeadChars, CutIn(1, HeadChars, ws)), Marker,
         DocPiece(len - TailChars + 1, len, 0)>>
  ELSE Text(len, ws)

\* _clean_contract_text: runs of whitespace collapse to one space, so every
\* piece loses its excess whitespace; the marker's newlines become spaces
\* and it keeps its length
CleanPiece(p) == IF p.kind = "marker" THEN p
                 ELSE [p EXCEPT !.from = p.from + p.cut, !.cut = 0]
_clean_contract_text(t) == [i \in 1..Len(t) |-> CleanPiece(t[i])]

\* contract_text[:n] of a cleaned text
RECURSIVE Prefix(_, _)
Prefix(t, n) ==
  IF t = <<>> \/ n <= 0 THEN <<>>
  ELSE LET p == Head(t) IN
       IF PieceLen(p) <= n THEN <<p>> \o Prefix(Tail(t), n - PieceLen(p))
       ELSE IF p.kind = "marker" THEN <<[p EXCEPT !.cut = MarkerLen - n]>>
       ELSE <<[p EXCEPT !.to = p.from + p.cut + n - 1]>>

PromptText(t, n) == Prefix(t, n)

TxtInit == [len |-> 0, ws |-> 0, truncated |-> <<>>, cleaned |-> <<>>, sent |-> <<>>, state |-> "none"]
TxtInputs == UNION {{[TxtInit EXCEPT !.len = l, !.ws = w, !.state = "extracted"] :
                        w \in {x \in Whitespace : x = 0 \/ x + MinTextLen <= l}} :
                     l \in TextLens}

\* process_single_contract from the length check to the extractor's prompt
SendToExtractor ==
  /\ pc = "idle"
  /\ txt.state = "extracted"
  /\ txt.len >= MinTextLen
  /\ LET t == Truncate(txt.len, txt.ws)
         c == _clean_contract_text(t) IN
       txt' = [txt EXCEPT !.truncated = t, !.cleaned = c,
                          !.sent = PromptText(c, PromptChars), !.state = "sent"]
  /\ UNCHANGED <<batchVars, exceptTxt>>

\* the length check of process_single_contract turns the file away
RejectShort ==
  /\ pc = "idle"
  /\ txt.state = "extracted"
  /\ txt.len < MinTextLen
  /\ txt' = [txt EXCEPT !.state = "rejected"]
  /\ UNCHANGED <<batchVars, exceptTxt>>

\* ------------------------------------------- final report and statistics
\* _generate_final_report arms SIGALRM for StatsBound seconds and calls
\* get_database_stats, which runs its count queries inside a try block and,
\* on any Exception, one more count query outside of it.  rpt:
\*   state     "idle", "detailed" (a query of the try block runs),
\*             "fallback" (the query of the except clause runs), "done"
\*   q         number of the detailed query that runs
\*   t         seconds since the alarm was armed
\*   alarm     the alarm is armed and has not gone off
\*   fired     the alarm went off
\*   db_stats  what the report holds under "database_stats"
\*   stray     the alarm went off after _generate_final_report returned
StatsBound == 30
StatsQueries == 5
MaxTime == 33
RptInit == [state |-> "idle", q |-> 0, t |-> 0, alarm |-> FALSE, fired |-> FALSE,
            db_stats |-> "none", stray |-> FALSE]

\* signal.signal(SIGALRM, timeout_handler); signal.alarm(30); the call of
\* get_database_stats opens the session and sends the first query
StartReport ==
  /\ pc = "idle"
  /\ rpt.state = "idle"
  /\ rpt' = [RptInit EXCEPT !.state = "detailed", !.q = 1, !.alarm = TRUE]
  /\ UNCHANGED <<batchVars, exceptRpt>>

\* the running query returns its count
QueryReturns ==
  /\ pc = "idle"
  /\ rpt.state \in {"detailed", "fallback"}
  /\ IF rpt.state = "detailed" /\ rpt.q < StatsQueries
     THEN rpt' = [rpt EXCEPT !.q = @ + 1]
     ELSE \* get_database_stats returns; signal.alarm(0) cancels the alarm
          rpt' = [rpt EXCEPT !.state = "done", !.alarm = FALSE,
                             !.db_stats = IF rpt.state = "detailed" THEN "stats"
                                          ELSE "contracts and Stats Error"]
  /\ UNCHANGED <<batchVars, exceptRpt>>

\* the running query raises: in the try block the except clause of
\* get_database_stats takes over and sends the fallback query; the fallback
\* query's exception leaves get_database_stats and is caught by "except
\* Exception" of _generate_final_report, which does not cancel the alarm
QueryRaises ==
  /\ pc = "idle"
  /\ rpt.state \in {"detailed", "fallback"}
  /\ IF rpt.state = "detailed"
     THEN rpt' = [rpt EXCEPT !.state = "fallback"]
     ELSE rpt' = [rpt EXCEPT !.state = "done", !.db_stats = "error"]
  /\ UNCHANGED <<batchVars, exceptRpt>>

\* where the TimeoutError raised by timeout_handler ends up: TimeoutError is
\* an Exception, so inside the try block of get_database_stats its except
\* clause catches it and goes on to the fallback query; raised in the fallback
\* query it reaches "except TimeoutError" of _generate_final_report
AlarmGoesOff(r) ==
  IF r.state = "detailed"
  THEN [r EXCEPT !.alarm = FALSE, !.fired = TRUE, !.state = "fallback"]
  ELSE [r EXCEPT !.alarm = FALSE, !.fired = TRUE, !.state = "done", !.db_stats = "timeout"]

\* a second passes while the store works on the running query; when the
\* alarm's time is reached the handler raises in the waiting call
Tick ==
  /\ pc = "idle"
  /\ rpt.state \in {"detailed", "fallback"}
  /\ rpt.t < MaxTime
  /\ LET r == [rpt EXCEPT !.t = @ + 1] IN
       rpt' = IF r.alarm /\ r.t = StatsBound THEN AlarmGoesOff(r) ELSE r
  /\ UNCHANGED <<batchVars, exceptRpt>>

\* a second passes after _generate_final_report returned (the caller prints
\* the results, the interactive query session runs): an alarm that is still
\* armed goes off when its time is reached and timeout_handler raises
\* TimeoutError in whatever code runs then
LateTick ==
  /\ pc = "idle"
  /\ rpt.state = "done"
  /\ rpt.alarm
  /\ rpt.t < MaxTime
  /\ LET r == [rpt EXCEPT !.t = @ + 1] IN
       rpt' = IF r.t = StatsBound
              THEN [r EXCEPT !.alarm = FALSE, !.fired = TRUE, !.stray = TRUE]
              ELSE r
  /\ UNCHANGED <<batchVars, exceptRpt>>

\* ---------------------------------------------------- cache flush cadence
\* The run loop seen through its counters, one action per file handled.  cad:
\*   total      len(contract_files)
\*   index      files handled so far
\*   processed  len(self.processed_files)
\*   entries    entries loaded from the cache file whose files are still ahead
\*   cacheLen   len(self.processed_data_cache)
\*   hasFile    the cache file exists
\*   diskLen    entries in the cache file
\*   unflushed  successful puts since the cache file was last written
\*   unbacked   successful puts since a backup snapshot was last written
\*   finished   the final save was made
\*   backups    the backup snapshots in the working directory, each named by
\*              the serial number of its write (a later write, a later mtime)
\*   serial     serial number of the next backup written
\*   saved      save_processed_cache ran in this run
\*   failed     len(self.failed_files); the k-th entry is the k-th failure
\*   preview    the failed-file list of the final report
MaxFiles == 12
KeepCount == 5
CadInit == [total |-> 0, index |-> 0, processed |-> 0, entries |-> 0, cacheLen |-> 0,
            hasFile |-> FALSE, diskLen |-> 0, unflushed |-> 0, unbacked |-> 0,
            finished |-> FALSE, backups |-> {}, serial |-> 1, saved |-> FALSE,
            failed |-> 0, preview |-> <<>>]
\* load_processed_cache: the index is what the file holds; the working
\* directory holds the backups earlier runs left (none, or KeepCount of them)
CadInputs ==
  UNION {{[CadInit EXCEPT !.total = n, !.entries = e, !.cacheLen = e, !.diskLen = e,
                          !.hasFile = (e > 0), !.backups = 1..b, !.serial = b + 1] :
            e \in 0..n, b \in {0, KeepCount}} : n \in 1..MaxFiles}

\* _cleanup_old_backups(keep_count): when more than keep_count backups
\* exist, sort by mtime, newest first, and remove all after the first
\* keep_count
_cleanup_old_backups(files, keep_count) ==
  IF Cardinality(files) > keep_count
  THEN {b \in files : Cardinality({x \in files : x > b}) < keep_count}
  ELSE files

\* the backups after save_processed_cache wrote one: only the license
\* processor of remote/ calls _cleanup_old_backups
BackupsAfterWrite(c) ==
  LET written == c.backups \cup {c.serial} IN
  IF variant = "license" THEN _cleanup_old_backups(written, KeepCount) ELSE written

FlushEvery == IF variant = "securities" THEN SaveEvery ELSE LicenseSaveEvery

\* save_processed_cache: the index goes to the cache file; the securities
\* processor always writes a backup, the license processor only when the
\* file did not exist or held a different number of entries
CadSave(c) ==
  LET cache_changed == ~c.hasFile \/ c.diskLen # c.cacheLen
      backup == variant = "securities" \/ cache_changed IN
  [c EXCEPT !.hasFile = TRUE, !.diskLen = c.cacheLen, !.unflushed = 0,
            !.unbacked = IF backup THEN 0 ELSE @,
            !.backups = IF backup THEN BackupsAfterWrite(c) ELSE @,
            !.serial = IF backup THEN @ + 1 ELSE @,
            !.saved = TRUE]

\* license loop: "if index % 10 == 0: save_processed_cache()", reached when
\* process_single_contract returned
LoopSave(c) ==
  IF variant = "license" /\ c.index % LicenseSaveEvery = 0 THEN CadSave(c) ELSE c

\* the file is served from the cache (return True before the try block)
CadHit ==
  /\ pc = "idle"
  /\ cad.index < cad.total
  /\ cad.entries > 0
  /\ cad' = LoopSave([cad EXCEPT !.index = @ + 1, !.entries = @ - 1,
                                 !.processed = IF variant = "securities" THEN @ + 1 ELSE @])
  /\ UNCHANGED <<batchVars, exceptCad>>

\* the file is ingested and cache_contract_data stores its entry: a new key,
\* or the key of a loaded entry whose file was modified.  The securities
\* processor saves when len(processed_files) % 5 == 0.
CadPut(isNew) ==
  /\ pc = "idle"
  /\ cad.index < cad.total
  /\ ~isNew => cad.entries > 0
  /\ LET c == [cad EXCEPT !.index = @ + 1,
                          !.entries = IF isNew THEN @ ELSE @ - 1,
                          !.cacheLen = IF isNew THEN @ + 1 ELSE @,
                          !.processed = @ + 1,
                          !.unflushed = @ + 1,
                          !.unbacked = @ + 1] IN
       cad' = IF variant = "securities"
              THEN (IF c.processed % SaveEvery = 0 THEN CadSave(c) ELSE c)
              ELSE LoopSave(c)
  /\ UNCHANGED <<batchVars, exceptCad>>

\* the file is rejected by the length check (return False, nothing recorded)
\* or fails inside the try block (recorded in failed_files, return False);
\* raises: the exception leaves process_single_contract (os.path.getmtime of
\* the cache check) and the license loop's "except Exception" records it and
\* takes over, past the periodic save
CadMiss(how) ==
  /\ pc = "idle"
  /\ cad.index < cad.total
  /\ how = "raises" => variant = "license"
  /\ LET c == [cad EXCEPT !.index = @ + 1,
                          !.failed = IF how = "rejected" THEN @ ELSE @ + 1] IN
       cad' = IF how = "raises" THEN c ELSE LoopSave(c)
  /\ UNCHANGED <<batchVars, exceptCad>>

\* self.failed_files as the run left it
FailedFiles(n) == [k \in 1..n |-> k]

\* the "failed_files" entry of _generate_final_report: the securities report
\* holds self.failed_files[:5], the license reports the whole list
PreviewLen == 5
FailedPreview(failures) ==
  IF variant = "securities"
  THEN SubSeq(failures, 1, IF Len(failures) < PreviewLen
                           THEN Len(failures) ELSE PreviewLen)
  ELSE failures

\* after the loop: the final save_processed_cache and the final report
CadFinish ==
  /\ pc = "idle"
  /\ cad.total > 0
  /\ cad.index = cad.total
  /\ ~cad.finished
  /\ cad' = [CadSave(cad) EXCEPT !.finished = TRUE,
                                 !.preview = FailedPreview(FailedFiles(cad.failed))]
  /\ UNCHANGED <<batchVars, exceptCad>>

\* ---------------------------------------------- one source file by type
\* A run over a directory that holds one file, from find_all_contract_files
\* to the final report.  pdf:
\*   ext         extension of the file: "html", "htm", "txt" or "pdf"
\*   uploads     the directory is the uploads directory (flat search)
\*   size        length of the text the file yields
\*   state       "new", "discovered", "handled", "reported"
\*   discovered  find_all_contract_files returned the file
\*   reached     the steps of process_single_contract the file got to
\*   cached      the index holds an entry for the file
\*   returned    what process_single_contract returned
\*   recorded    the file is in self.failed_files
Extensions == {"html", "htm", "txt", "pdf"}
SrcInit == [ext |-> "html", uploads |-> FALSE, size |-> 0, state |-> "new",
            discovered |-> FALSE, reached |-> {}, cached |-> FALSE,
            returned |-> FALSE, recorded |-> FALSE]
SrcInputs == {[SrcInit EXCEPT !.ext = e, !.uploads = u, !.size = z] :
                e \in Extensions, u \in BOOLEAN, z \in Sizes}

\* the glob patterns of find_all_contract_files: the license processor looks
\* for *.pdf in both kinds of directory, the securities processor in neither
GlobbedExtensions ==
  IF variant = "license" THEN {"html", "htm", "txt", "pdf"} ELSE {"html", "htm", "txt"}

\* run_batch_processing up to the loop
Discover ==
  /\ pc = "idle"
  /\ pdf.state = "new"
  /\ pdf' = [pdf EXCEPT !.state = "discovered",
                        !.discovered = pdf.ext \in GlobbedExtensions]
  /\ UNCHANGED <<batchVars, exceptPdf>>

\* process_single_contract for the file: the branch on file_type (the license
\* processor returns False for "pdf"), the length check, ingest_contract and
\* the cache put
HandleFile(ingestFails) ==
  /\ pc = "idle"
  /\ pdf.state = "discovered"
  /\ pdf.discovered
  /\ pdf' =
       IF variant = "license" /\ pdf.ext = "pdf"
       THEN [pdf EXCEPT !.state = "handled"]
       ELSE IF pdf.size < MinTextLen
       THEN [pdf EXCEPT !.state = "handled", !.reached = {"text"}]
       ELSE IF ingestFails
       THEN [pdf EXCEPT !.state = "handled", !.reached = {"text", "generative"},
                        !.recorded = TRUE]
       ELSE [pdf EXCEPT !.state = "handled",
                        !.reached = {"text", "generative", "persistence"},
                        !.cached = TRUE, !.returned = TRUE]
  /\ UNCHANGED <<batchVars, exceptPdf>>

\* what run_batch_processing returns: the error dictionary when no file was
\* found, else the counts and lists of _generate_final_report
SourceReport(p) ==
  IF ~p.discovered
  THEN [error |-> "No contract files found"]
  ELSE [total_files |-> 1,
        successful_count |-> IF p.returned THEN 1 ELSE 0,
        failed_count |-> IF p.recorded THEN 1 ELSE 0,
        failed_files |-> IF p.recorded THEN {p.ext} ELSE {}]

\* the run ends: with the error dictionary right after discovery, or with
\* the final report after the loop
ReportRun ==
  /\ pc = "idle"
  /\ \/ pdf.state = "discovered" /\ ~pdf.discovered
     \/ pdf.state = "handled"
  /\ pdf' = [pdf EXCEPT !.state = "reported"]
  /\ UNCHANGED <<batchVars, exceptPdf>>

\* ==================================================== processing endpoint
\* backend/api.py: POST /process handled by start_processing on one event
\* loop.  A handler runs without interruption between two awaits; at an await
\* that waits for a websocket send, the loop may run another handler or task.

\* requests the clients send
Requests == {1, 2, 3}

\* state.current_processing_job before any job: None
NoJob == [job_id |-> 0, status |-> "none"]

\*   conns     websocket clients in manager.active_connections
\*   envKey    GOOGLE_API_KEY is set in the environment
\*   files     the upload directory holds a contract file
\*   job       state.current_processing_job
\*   req       per request: "new", "awaiting" (suspended in send_log_message
\*             after the status check), "rejected", "accepted"
\*   running   process_contracts_background tasks created and not finished
\*   suspended some handler was suspended between its check and its assignment
\*   replaced  a job in status "processing" was replaced by another one
ApiInit ==
  [conns |-> 0, envKey |-> FALSE, files |-> FALSE, job |-> NoJob,
   req |-> [r \in Requests |-> "new"], running |-> 0,
   suspended |-> FALSE, replaced |-> FALSE]

\* websocket_endpoint: a client connects or goes away
Connect ==
  /\ pc = "idle"
  /\ api.conns = 0
  /\ api' = [api EXCEPT !.conns = 1]
  /\ UNCHANGED <<batchVars, exceptApi>>

Disconnect ==
  /\ pc = "idle"
  /\ api.conns = 1
  /\ api' = [api EXCEPT !.conns = 0]
  /\ UNCHANGED <<batchVars, exceptApi>>

\* upload_contracts leaves a contract file in the upload directory
Upload ==
  /\ pc = "idle"
  /\ ~api.files
  /\ api' = [api EXCEPT !.files = TRUE]
  /\ UNCHANGED <<batchVars, exceptApi>>

\* get_api_key_from_request: the header, else the environment
HasApiKey(a, header) == header \/ a.envKey

\* the status check of start_processing
AlreadyProcessing(a) == a.job.status = "processing"

\* start_processing from the assignment of the job on: the new job replaces
\* state.current_processing_job and the background task is created
StartJob(a, r) ==
  [a EXCEPT !.job = [job_id |-> r, status |-> "processing"],
            !.running = @ + 1,
            !.replaced = @ \/ AlreadyProcessing(a),
            !.req[r] = "accepted"]

\* start_processing up to its first await; `yields` says whether the websocket
\* send inside send_log_message suspends the handler (it cannot when no client
\* is connected: broadcast_message then awaits nothing)
StartProcessing(r, header, yields) ==
  /\ pc = "idle"
  /\ api.req[r] = "new"
  /\ yields => api.conns > 0
  /\ api' =
       IF ~HasApiKey(api, header) THEN [api EXCEPT !.req[r] = "rejected"]
       ELSE LET a == [api EXCEPT !.envKey = TRUE] IN
         IF AlreadyProcessing(a) \/ ~a.files THEN [a EXCEPT !.req[r] = "rejected"]
         ELSE IF yields THEN [a EXCEPT !.req[r] = "awaiting", !.suspended = TRUE]
         ELSE StartJob(a, r)
  /\ UNCHANGED <<batchVars, exceptApi>>

\* the handler resumes after send_log_message
ResumeProcessing(r) ==
  /\ pc = "idle"
  /\ api.req[r] = "awaiting"
  /\ api' = StartJob(api, r)
  /\ UNCHANGED <<batchVars, exceptApi>>

\* process_contracts_background ends: it marks whatever job is current
TaskEnds(status) ==
  /\ pc = "idle"
  /\ api.running > 0
  /\ api' = [api EXCEPT !.running = @ - 1, !.job.status = status]
  /\ UNCHANGED <<batchVars, exceptApi>>

\* ========================================================== backup restore
\* src/neo4j_persistence.py: export_database writes nodes and relationships
\* with the store's node ids; import_database re-creates them in a store
\* that hands out new ids.

\* node ids the exported store may use, and relationships per graph
MaxNodeId == 3
MaxRels == 2
NodeIds == 0..MaxNodeId

\* a node is its store id and its properties (distinct per node, so that a
\* restored node can be told from the others); a relationship is the pair of
\* the ids of its start and end nodes
NodeOf(k) == [id |-> k, props |-> k]
RECURSIVE RelSets(_, _)
RelSets(pairs, k) ==
  IF k = 0 THEN {{}}
  ELSE LET smaller == RelSets(pairs, k - 1) IN
         smaller \cup {r \cup {p} : r \in smaller, p \in pairs}
Graphs ==
  UNION {{[nodes |-> {NodeOf(k) : k \in N}, rels |-> R] : R \in RelSets(N \X N, MaxRels)} :
           N \in (SUBSET NodeIds) \ {{}}}
EmptyStore == [nodes |-> {}, rels |-> {}]

\* MATCH (n) RETURN ...: the store's nodes, by ascending id
RECURSIVE ByAscendingId(_)
ByAscendingId(nodes) ==
  IF nodes = {} THEN <<>>
  ELSE LET first == CHOOSE n \in nodes : \A m \in nodes : n.id <= m.id IN
         <<first>> \o ByAscendingId(nodes \ {first})
ScanNodes(store) == ByAscendingId(store.nodes)

_export_nodes(store) == ScanNodes(store)

_export_relationships(store) ==
  {[start_node_id |-> r[1], end_node_id |-> r[2]] : r \in store.rels}

\* the zip file export_database writes
export_database(store) ==
  [nodes |-> _export_nodes(store), relationships |-> _export_relationships(store)]

\* the ids the store gives to the nodes it creates, in order of creation
FreshId(store, base, i) ==
  LET used == {n.id : n \in store.nodes}
      from == IF used = {} THEN base ELSE 1 + CHOOSE m \in used : \A u \in used : u <= m
  IN from + i - 1

\* _import_nodes: one CREATE per exported node, properties copied; the
\* old-id to new-id mapping it builds is returned and not used by the caller
_import_nodes(store, nodes_data, base) ==
  [store EXCEPT !.nodes = @ \cup
     {[id |-> FreshId(store, base, i), props |-> nodes_data[i].props] :
        i \in 1..Len(nodes_data)}]

\* _get_node_id_mapping: position in the scan of the store (from 0) to node id
_get_node_id_mapping(store) ==
  LET scan == ScanNodes(store) IN
    [i \in 0..(Cardinality(store.nodes) - 1) |-> scan[i + 1].id]

\* _import_relationships: a relationship is created when both of its old ids
\* are keys of the mapping
_import_relationships(store, relationships_data) ==
  LET node_mapping == _get_node_id_mapping(store) IN
    [store EXCEPT !.rels = @ \cup
       {<<node_mapping[rel.start_node_id], node_mapping[rel.end_node_id]>> :
          rel \in {x \in relationships_data :
                     /\ x.start_node_id \in DOMAIN node_mapping
                     /\ x.end_node_id \in DOMAIN node_mapping}}]

\* import_database: clear, then nodes, then relationships
import_database(store, clear_existing, backup, base) ==
  LET cleared == IF clear_existing THEN EmptyStore ELSE store IN
    _import_relationships(_import_nodes(cleared, backup.nodes, base),
                          backup.relationships)

\*   stage     "live", "exported", "restored"
\*   store     the graph store
\*   original  the store as it was when it was exported
\*   backup    the exported file
\*   cleared   import_database ran with clear_existing
BakInit ==
  [stage |-> "live", store |-> EmptyStore, original |-> EmptyStore,
   backup |-> [nodes |-> <<>>, relationships |-> {}], cleared |-> FALSE]
BakInputs == {[BakInit EXCEPT !.store = g] : g \in Graphs}

ExportDatabase ==
  /\ pc = "idle"
  /\ bak.stage = "live"
  /\ bak' = [bak EXCEPT !.stage = "exported",
                        !.original = bak.store,
                        !.backup = export_database(bak.store)]
  /\ UNCHANGED <<batchVars, exceptBak>>

\* base: the first id a cleared store hands out
ImportDatabase(clear_existing, base) ==
  /\ pc = "idle"
  /\ bak.stage = "exported"
  /\ bak' = [bak EXCEPT !.stage = "restored",
                        !.cleared = clear_existing,
                        !.store = import_database(bak.store, clear_existing, bak.backup, base)]
  /\ UNCHANGED <<batchVars, exceptBak>>

\* a graph read through the properties of its nodes
PropsOf(store, id) == (CHOOSE n \in store.nodes : n.id = id).props
ByProps(store) ==
  [nodes |-> {n.props : n \in store.nodes},
   rels |-> {<<PropsOf(store, r[1]), PropsOf(store, r[2])>> : r \in store.rels}]

\* ========================================================= specifications
QuietSizes == {[f \in Files |-> 2 * MinTextLen]}

BatchInit(sizes) ==
  /\ fExists = [f \in Files |-> TRUE]
  /\ fMtime = [f \in Files |-> 1]
  /\ fSize \in sizes
  /\ clock = 1
  /\ diskCache = EmptyCache
  /\ graph = EmptyGraph
  /\ variant \in {"securities", "license"}
  /\ driver = "batch"
  /\ force = FALSE
  /\ pc = "idle"
  /\ cache = EmptyCache
  /\ queue = <<>>
  /\ idx = 1
  /\ processed_files = <<>>
  /\ failed_files = <<>>
  /\ successful_count = 0
  /\ curSrc = 0
  /\ outcome = [f \in Files |-> "none"]
  /\ llmCalls = [f \in Files |-> 0]
  /\ lookups = {}
  /\ visited = {}
  /\ prior = EmptyCache
  /\ recorded = EmptyCache
  /\ cacheBefore = EmptyCache
  /\ discovered = <<>>
  /\ persisted = {}
  /\ hist = HistInit(EmptyGraph)

Init ==
  /\ BatchInit([Files -> Sizes])
  /\ ing = IngInit
  /\ mrg = MrgInit
  /\ qry = QryInit({})
  /\ txt = TxtInit
  /\ rpt = RptInit
  /\ cad = CadInit
  /\ pdf = SrcInit
  /\ api = ApiInit
  /\ bak = BakInit

Next ==
  \/ \E d \in {"batch", "api"}, fr \in BOOLEAN, mc \in Caps :
       \E globbed \in GlobOrders(d = "api") : StartRun(d, fr, mc, globbed)
  \/ Lookup
  \/ ReadText
  \/ Ingest
  \/ CachePut
  \/ \E at \in 1..3 : Interrupt(at)
  \/ FinishRun
  \/ \E f \in Files : ModifyFile(f)
  \/ \E f \in Files : DeleteFile(f)

Spec == Init /\ [][Next]_vars

InitIngest ==
  /\ BatchInit(QuietSizes)
  /\ ing \in IngInputs
  /\ mrg = MrgInit
  /\ qry = QryInit({})
  /\ txt = TxtInit
  /\ rpt = RptInit
  /\ cad = CadInit
  /\ pdf = SrcInit
  /\ api = ApiInit
  /\ bak = BakInit

NextIngest ==
  \/ \E doc \in Docs, title \in Titles, fullFails, minimalFails \in BOOLEAN :
       IngestSecurities(doc, title, fullFails, minimalFails)
  \/ \E doc \in Docs, title \in Titles, checkFails1, checkFails2 \in BOOLEAN, failAt \in 0..3 :
       IngestLicense(doc, title, checkFails1, checkFails2, failAt)

SpecIngest == InitIngest /\ [][NextIngest]_vars

InitMerge ==
  /\ BatchInit(QuietSizes)
  /\ variant = "securities"
  /\ ing = IngInit
  /\ mrg \in MergeInputs
  /\ qry = QryInit({})
  /\ txt = TxtInit
  /\ rpt = RptInit
  /\ cad = CadInit
  /\ pdf = SrcInit
  /\ api = ApiInit
  /\ bak = BakInit

NextMerge ==
  \/ Extract
  \/ \E guess \in {<<>>, <<"guess">>} : ExtractFallback(guess)

SpecMerge == InitMerge /\ [][NextMerge]_vars

InitQuery ==
  /\ BatchInit(QuietSizes)
  /\ ing = IngInit
  /\ mrg = MrgInit
  /\ qry \in {QryInit(stored) : stored \in SUBSET Titles}
  /\ txt = TxtInit
  /\ rpt = RptInit
  /\ cad = CadInit
  /\ pdf = SrcInit
  /\ api = ApiInit
  /\ bak = BakInit

NextQuery ==
  \/ \E gen \in GenBehaviours, storeFails1, storeFails2 \in BOOLEAN, answer \in AnswerKinds :
       QueryLicense(gen, storeFails1, storeFails2, answer)
  \/ \E storeFails1 \in BOOLEAN, answer \in AnswerKinds :
       QuerySecurities(storeFails1, answer)
  \/ \E gen \in GenBehaviours, limit \in Limits, storeFails1, storeFails2 \in BOOLEAN :
       RelevantContracts(gen, limit, storeFails1, storeFails2)

SpecQuery == InitQuery /\ [][NextQuery]_vars

InitText ==
  /\ BatchInit(QuietSizes)
  /\ variant = "securities"
  /\ ing = IngInit
  /\ mrg = MrgInit
  /\ qry = QryInit({})
  /\ txt \in TxtInputs
  /\ rpt = RptInit
  /\ cad = CadInit
  /\ pdf = SrcInit
  /\ api = ApiInit
  /\ bak = BakInit

NextText ==
  \/ SendToExtractor
  \/ RejectShort

SpecText == InitText /\ [][NextText]_vars

InitReport ==
  /\ BatchInit(QuietSizes)
  /\ variant = "securities"
  /\ ing = IngInit
  /\ mrg = MrgInit
  /\ qry = QryInit({})
  /\ txt = TxtInit
  /\ rpt = RptInit
  /\ cad = CadInit
  /\ pdf = SrcInit
  /\ api = ApiInit
  /\ bak = BakInit

NextReport ==
  \/ StartReport
  \/ QueryReturns
  \/ QueryRaises
  \/ Tick
  \/ LateTick

SpecReport == InitReport /\ [][NextReport]_vars

InitCadence ==
  /\ BatchInit(QuietSizes)
  /\ ing = IngInit
  /\ mrg = MrgInit
  /\ qry = QryInit({})
  /\ txt = TxtInit
  /\ rpt = RptInit
  /\ cad \in CadInputs
  /\ pdf = SrcInit
  /\ api = ApiInit
  /\ bak = BakInit

NextCadence ==
  \/ CadHit
  \/ \E isNew \in BOOLEAN : CadPut(isNew)
  \/ \E how \in {"rejected", "failed", "raises"} : CadMiss(how)
  \/ CadFinish

SpecCadence == InitCadence /\ [][NextCadence]_vars

InitSource ==
  /\ BatchInit(QuietSizes)
  /\ ing = IngInit
  /\ mrg = MrgInit
  /\ qry = QryInit({})
  /\ txt = TxtInit
  /\ rpt = RptInit
  /\ cad = CadInit
  /\ pdf \in SrcInputs
  /\ api = ApiInit
  /\ bak = BakInit

NextSource ==
  \/ Discover
  \/ \E ingestFails \in BOOLEAN : HandleFile(ingestFails)
  \/ ReportRun

SpecSource == InitSource /\ [][NextSource]_vars

InitProcess ==
  /\ BatchInit(QuietSizes)
  /\ ing = IngInit
  /\ mrg = MrgInit
  /\ qry = QryInit({})
  /\ txt = TxtInit
  /\ rpt = RptInit
  /\ cad = CadInit
  /\ pdf = SrcInit
  /\ api = ApiInit
  /\ bak = BakInit

NextProcess ==
  \/ Connect
  \/ Disconnect
  \/ Upload
  \/ \E r \in Requests, header, yields \in BOOLEAN : StartProcessing(r, header, yields)
  \/ \E r \in Requests : ResumeProcessing(r)
  \/ \E status \in {"completed", "error"} : TaskEnds(status)

SpecProcess == InitProcess /\ [][NextProcess]_vars

InitBackup ==
  /\ BatchInit(QuietSizes)
  /\ ing = IngInit
  /\ mrg = MrgInit
  /\ qry = QryInit({})
  /\ txt = TxtInit
  /\ rpt = RptInit
  /\ cad = CadInit
  /\ pdf = SrcInit
  /\ api = ApiInit
  /\ bak \in BakInputs

NextBackup ==
  \/ ExportDatabase
  \/ \E clear_existing \in BOOLEAN, base \in {0, MaxNodeId + 1} :
       ImportDatabase(clear_existing, base)

SpecBackup == InitBackup /\ [][NextBackup]_vars

\* =================================================================== claims
Range(s) == {s[i] : i \in 1..Len(s)}
InRun == pc \notin {"idle", "crashed"}

\* C1: a file that an earlier, completed run processed successfully and that
\* still has the modification time recorded then is not sent to ingest_contract
\* by a later run with force_reprocess = false, and at the end of that run its
\* cache entry is the one the earlier run recorded, whichever driver ran.
C1_CacheCorrectness ==
  \A f \in Files :
    (InRun /\ ~force /\ prior[f] # NoEntry /\ fExists[f] /\ fMtime[f] = prior[f].mtime)
      => /\ llmCalls[f] = 0
         /\ pc = "finish" => cache[f] = prior[f]

\* C2: under run_batch_processing an exception while handling one file never
\* ends the run, and every file whose handling raised is recorded in failed_files.
C2_FailureIsolation ==
  (driver = "batch" /\ ~hist.stopped) =>
    /\ pc # "crashed"
    /\ \A f \in Files : outcome[f] \in {"failed", "error"} => f \in Range(failed_files)

\* C4: in a run with force_reprocess = false the cache check serves a file from
\* the cache exactly when the cache holds an entry for it and the file's mtime
\* is at most the stored one; otherwise the file goes on to text extraction.
C4_CacheValidity ==
  [][(pc = "lookup" /\ (idx' # idx \/ pc' # pc) /\ ~hist'.stopped /\ ~force /\ fExists[Current])
       => IF cache[Current] # NoEntry /\ fMtime[Current] <= cache[Current].mtime
          THEN outcome'[Current] = "skipped" /\ llmCalls'[Current] = 0
          ELSE pc' = "read" /\ outcome'[Current] = "none"]_vars

\* C4 witness: a cached file whose mtime moved past the stored one is being
\* reprocessed by a run with force_reprocess = false
C4_Witness ==
  /\ pc = "read" /\ ~force
  /\ cache[Current] # NoEntry
  /\ fMtime[Current] > cache[Current].mtime

\* C5: a file served from the cache (and not modified since it was served) has
\* a cached record extracted from the content the file has.
C5_HitServesCurrentContent ==
  \A f \in Files :
    (outcome[f] = "skipped" /\ fExists[f] /\ fMtime[f] <= cache[f].mtime)
      => cache[f].src = fMtime[f]

\* C6: in a run started with force_reprocess = true no file is served from the
\* cache.
C6_ForceBypassesCache ==
  force => \A f \in Files : outcome[f] # "skipped"

\* C7: the list of files a run works on holds no two files with the same
\* (basename, size), keeps of such files the one discovered first, and no file
\* outside the list is looked up, read, extracted, persisted or counted.
C7_DiscoveryDedup ==
  InRun =>
    /\ \A i, j \in 1..Len(queue) :
         i # j => file_identifier(queue[i]) # file_identifier(queue[j])
    /\ \A i \in 1..Len(queue) : \A k, m \in 1..Len(discovered) :
         ( /\ discovered[m] = queue[i]
           /\ discovered[k] # queue[i]
           /\ file_identifier(discovered[k]) = file_identifier(queue[i]) ) => m < k
    /\ (visited \cup lookups \cup persisted
          \cup {f \in Files : llmCalls[f] > 0 \/ outcome[f] # "none"}) \subseteq Range(queue)
    /\ Range(processed_files) \cup Range(failed_files) \subseteq Range(queue)
    /\ successful_count + Len(failed_files) <= Len(queue)

\* C7 witness: two discovered files share (basename, size), the run is over
\* and only the first of them was handled
C7_Witness ==
  /\ pc = "finish"
  /\ \E k, m \in 1..Len(discovered) :
       /\ k < m
       /\ file_identifier(discovered[k]) = file_identifier(discovered[m])
       /\ discovered[k] \in visited
       /\ discovered[m] \notin visited
       /\ outcome[discovered[k]] = "succeeded"

\* C9: the cache index changes only by the entry of the file handled last, and
\* only when that file reached the graph write and then succeeded; a file that
\* was skipped, rejected or failed leaves the index as it was.
C9_PerFileOrder ==
  /\ \A g \in Files :
       cache[g] # cacheBefore[g]
         => /\ pc \in {"lookup", "finish", "crashed"} /\ idx > 1 /\ g = queue[idx - 1]
            /\ outcome[g] = "succeeded"
            /\ g \in persisted
            /\ graph.node[TitleOf(g)] >= 1
  /\ \A g \in Files :
       recorded[g] # NoEntry
         => outcome[g] = "succeeded" /\ g \in persisted /\ graph.node[TitleOf(g)] >= 1
  /\ \A g \in Files :
       (outcome[g] \in {"skipped", "rejected", "failed", "error"}
          /\ idx > 1 /\ pc \in {"lookup", "finish"} /\ g = queue[idx - 1])
         => cache = cacheBefore

\* C9 witness: a run in which one file failed at the graph write and a later
\* one succeeded and was cached
C9_Witness ==
  /\ pc = "finish"
  /\ \E f, g \in Files :
       /\ outcome[f] = "failed" /\ cache[f] = NoEntry
       /\ outcome[g] = "succeeded" /\ cache[g] # cacheBefore[g]

\* C3: ingesting the same document under the same title again leaves exactly
\* one primary contract node with that title, and the repeated call returns
\* normally (it can only raise when a store operation fails).
C3_IngestIdempotent ==
  /\ \A t \in Titles : graph.node[t] <= 1
  /\ \A p \in ing.done : graph.node[p[2]] = 1
  /\ (ing.again /\ ~ing.faulty) => (~ing.raised /\ graph.node[ing.title] = 1)

\* C3 witness: a second ingest of the same document and title has returned
\* normally and the title has its one node
C3_Witness ==
  /\ ing.calls >= 2
  /\ ing.again
  /\ ~ing.raised
  /\ graph.node[ing.title] = 1

\* C8: every populated generative field (contract type, execution date,
\* amount, parties, securities, closing conditions) is kept as it is in the
\* merged record, and an unpopulated one takes the rule-derived value.
C8_MergePrecedence ==
  (mrg.done /\ ~mrg.fallback) =>
    /\ mrg.out.contract_type = mrg.gen.contract_type
    /\ \A k \in DOMAIN mrg.rule :
         IF mrg.gen[k] # <<>>
         THEN mrg.out[k] = mrg.gen[k]
         ELSE mrg.rule[k] # <<>> => mrg.out[k] = mrg.rule[k]

\* C10: once an import got to its write statements and the store still takes
\* a minimal write, the graph holds at least a stub node with the record's
\* title, whether or not the full write failed.
C10_StubOnWriteFailure ==
  (ing.calls > 0 /\ ing.wrote /\ ~ing.stubFails) => graph.node[ing.title] >= 1

C12_QueryFallback ==
  (qry.calls > 0 /\ variant = "license" /\ qry.generated \in {<<"raises">>, <<"no MATCH">>})
    => /\ ~qry.escaped
       /\ qry.executed = _get_fallback_cypher_query(DefaultLimit)

\* C13: query_contracts never raises: whatever the store and the generative
\* collaborator do it returns a string, and an exception of
\* _get_relevant_contracts comes back as the error message.
C13_QueryReturnsString ==
  qry.calls > 0 =>
    /\ qry.result \in {"processing error", "no contracts"} \cup AnswerKinds
    /\ qry.escaped => qry.result = "processing error"

\* C13 witness: the store failed under _get_relevant_contracts (in the license
\* flow also under the fallback query) and the caller got the error string
C13_Witness ==
  /\ qry.calls > 0
  /\ qry.escaped
  /\ qry.result = "processing error"

\* the MATCH / OPTIONAL MATCH clauses of a query with their WHERE filters
ClauseLines(q) ==
  SelectSeq(q, LAMBDA line : line \in {"MATCH", "MATCH_WHERE", "OPTIONAL MATCH", "WHERE"})

\* C14: a generated query that projects whole nodes is repaired so that all
\* its MATCH / OPTIONAL MATCH clauses and their WHERE filters are kept as they
\* were, and the repaired query selects the same contracts.
C14_RepairKeepsClauses ==
  (qry.calls > 0 /\ variant = "license" /\ qry.generated \in GeneratedQueries
     /\ ReturnsNodes(qry.generated))
    => /\ ClauseLines(qry.executed) = ClauseLines(qry.generated)
       /\ Selected(qry.executed, qry.stored) = Selected(qry.generated, qry.stored)

Count(kinds) == Cardinality({f \in Files : outcome[f] \in kinds})

\* C15: when the loop is over and k >= 1 files were rejected by the length
\* check, the batch result reports k skipped files, counts none of them as
\* failed, and its successful count is the number of files that went through
\* persistence and cache update.
C15_RejectedReportedAsSkipped ==
  (pc = "finish" /\ Count({"rejected"}) >= 1) =>
    /\ "skipped" \in DOMAIN BatchResult
    /\ BatchResult["skipped"] = Count({"rejected"})
    /\ BatchResult.failed_count = Count({"failed", "error"})
    /\ BatchResult.successful_count = Count({"succeeded"})

HeadMarkerTail(len) ==
  <<DocPiece(1, HeadChars, 0), Marker, DocPiece(len - TailChars + 1, len, 0)>>

\* C16: for a document whose extracted text is longer than the truncation
\* threshold, the text sent to the generative extractor is the first 15,000
\* characters of the document, one elision marker, and the last 5,000
\* characters of the document.
C16_TruncatedTextSent ==
  (txt.state = "sent" /\ txt.len > TruncateThreshold) =>
     txt.sent = HeadMarkerTail(txt.len)

\* what the graph holds under title t
GraphAt(g, t) == <<g.node[t], g.full[t], g.lp[t], g.lm[t]>>

\* C17: when the batch loop was interrupted while a file was in progress,
\* nothing of that file is committed: the graph is as it was when the
\* handling of the file began and the cache holds no entry the run made for
\* it, while every file persisted before the interrupt still has its node.
C17_InterruptedFileDiscarded ==
  (hist.interrupted # 0) =>
    /\ GraphAt(graph, TitleOf(hist.interrupted))
         = GraphAt(hist.graphBefore, TitleOf(hist.interrupted))
    /\ cache[hist.interrupted] = cacheBefore[hist.interrupted]
    /\ \A f \in persisted \ {hist.interrupted} : graph.node[TitleOf(f)] > 0

\* C18: re-ingesting a securities record under the same title adds no
\* relationship edges: after the second ingest the contract node has as many
\* HAS_CLOSING_CONDITION and INCLUDES_REPRESENTATION edges as before it.
C18_NoDuplicateChildEdges ==
  (variant = "securities" /\ ing.again /\ ~ing.faulty /\ ~ing.raised) =>
    /\ ing.cc[ing.title] = ing.ccBefore
    /\ ing.rep[ing.title] = ing.repBefore

\* C19: the report never waits on the statistics query beyond the 30-second
\* bound, and when the bound expired the report holds a timeout/error entry
\* in place of the database statistics.
C19_BoundedStatistics ==
  /\ rpt.t <= StatsBound
  /\ (rpt.fired /\ rpt.state = "done") => rpt.db_stats \in {"timeout", "error"}

\* C20: at no point of a run are there N or more successful puts that were
\* not yet written to the cache file, or N or more that no backup snapshot
\* holds (N = 5 in the securities processor, 10 in the license processor).
C20_FlushCadence ==
  /\ cad.unflushed < FlushEvery
  /\ cad.unbacked < FlushEvery

\* C21: after a cache flush at most K backup snapshots exist and they are the
\* K most recently written ones, in every batch processor variant.
C21_BackupsPruned ==
  cad.saved =>
    /\ Cardinality(cad.backups) <= KeepCount
    /\ \A b \in cad.backups : b >= cad.serial - KeepCount

\* C22: the failed-file list of every batch final report holds at most five
\* entries, the first five failures in the order they occurred.
C22_FailedPreviewCapped ==
  cad.finished =>
    /\ Len(cad.preview) <= PreviewLen
    /\ \A k \in 1..Len(cad.preview) : cad.preview[k] = k
    /\ Len(cad.preview) < PreviewLen => Len(cad.preview) = cad.failed

\* C23: a .pdf file is recognized at discovery but rejected: it reaches
\* neither text extraction nor generative extraction nor persistence, gets no
\* cache entry, and the batch result holds a skip record for it.
C23_PdfRejectedWithSkipRecord ==
  (pdf.ext = "pdf" /\ pdf.state = "reported") =>
    /\ pdf.discovered
    /\ pdf.reached = {}
    /\ ~pdf.cached
    /\ "skipped" \in DOMAIN SourceReport(pdf)

\* C24: in the license flow, whenever process_single_contract wrote a cache
\* entry for a file, the graph holds a contract node with the record's title
\* whose properties and whose licensor/licensee and patent/product/territory
\* links are those of the cached record.
C24_CacheGraphAgreement ==
  variant = "license" =>
    \A f \in Files :
      recorded[f] # NoEntry =>
        /\ graph.node[TitleOf(f)] >= 1
        /\ graph.full[TitleOf(f)] = recorded[f].src
        /\ graph.lp[TitleOf(f)] = recorded[f].src
        /\ graph.lm[TitleOf(f)] = recorded[f].src

\* C25: when a run started with force_reprocess = true finishes, the cache
\* file still holds the previous entry of every previously cached file the
\* run did not process.
C25_ForceKeepsOtherEntries ==
  [][(pc = "finish" /\ pc' = "idle" /\ force /\ driver = "batch")
       => \A f \in Files :
            (hist.diskBefore[f] # NoEntry /\ f \notin visited)
              => diskCache'[f] = hist.diskBefore[f]]_vars

\* C26: one call of import_securities_contract_to_neo4j for a record with p
\* parties, s securities and c closing conditions creates exactly s Security
\* nodes and exactly c ClosingCondition nodes, whatever the lengths of the
\* other lists.
C26_ChildCountsPerList ==
  (variant = "securities" /\ ing.calls > 0 /\ ~ing.faulty /\ ~ing.raised) =>
    /\ ing.secMade = ing.kids.securities
    /\ ing.ccMade = ing.kids.conditions

\* C27: when _generate_final_report has returned, no alarm it armed is still
\* pending, so no TimeoutError is raised later in unrelated code.
C27_AlarmDisarmed ==
  /\ rpt.state = "done" => ~rpt.alarm
  /\ ~rpt.stray

\* C28: _get_relevant_contracts(query, limit) returns at most `limit` records
\* on every path: generated query, repaired query or fallback query.
C28_RowCap ==
  (qry.direct /\ ~qry.escaped) => Cardinality(qry.rows) <= qry.limit

\* C29: under every interleaving of concurrent POST /process requests, at most
\* one process_contracts_background task is running while a job is in status
\* "processing", and a job in status "processing" is never replaced.
C29_SingleJob ==
  /\ api.running <= 1
  /\ ~api.replaced

\* C30: restoring an exported backup into a cleared store reproduces the
\* original graph: every exported relationship is re-created between the
\* nodes that correspond to its original start and end nodes.
C30_BackupRoundTrip ==
  (bak.stage = "restored" /\ bak.cleared) => ByProps(bak.store) = ByProps(bak.original)

====
